---- MODULE Spec2Model ----
\* Product Store Service (service/routes.py): the REST handlers over the
\* products table, as a state machine.  One action per route; each action is
\* the whole handler, from the content-type check to the response.
EXTENDS Integers, Sequences, FiniteSets, TLC

\* ------------------------------------------------------------------ bounds
\* Cap of the primary-key sequence: at most MaxId products are ever created.
MaxId == 3

\* Cap of the primary-key sequence in the step-wise specification (SpecSteps).
MaxStepId == 2

\* ----------------------------------------------------------- HTTP statuses
HTTP_200_OK == 200
HTTP_201_CREATED == 201
HTTP_204_NO_CONTENT == 204
HTTP_400_BAD_REQUEST == 400
HTTP_404_NOT_FOUND == 404
HTTP_415_UNSUPPORTED_MEDIA_TYPE == 415
HTTP_500_INTERNAL_SERVER_ERROR == 500

\* The id of a transient Product (Python None).
NoId == 0

\* --------------------------------------------------------------- wire data
\* Content-Type header of a request: NoHeader when the header is absent.
NoHeader == "<absent>"
JSON == "application/json"
ContentTypes == {NoHeader, JSON, "plain/text"}

\* The Category enumeration: symbolic name -> member.
Category == [UNKNOWN |-> 0, CLOTHS |-> 1, FOOD |-> 2, HOUSEWARES |-> 3,
             AUTOMOTIVE |-> 4, TOOLS |-> 5]
CategoryNames == DOMAIN Category

\* Category.<member>.name
CategoryName(c) == CHOOSE n \in CategoryNames : Category[n] = c

ProductKeys == {"name", "description", "price", "available", "category"}

\* A request body.  parse: the text is a JSON object; keys: the keys it holds;
\* the other fields are the values under those keys (a filler when the key is
\* absent).  price is <<"num", v>> (a JSON number) or <<"str", v>> (a JSON
\* string), v the decimal value in cents; available is the JSON text of the
\* value ("true" and "false" are the booleans).
Body(parse, keys, name, price, available, category, id) ==
    [parse |-> parse, keys |-> keys, name |-> name, description |-> "text",
     price |-> price, available |-> available, category |-> category, id |-> id]

NoBody == Body(FALSE, {}, "", <<"num", 0>>, "", "", NoId)

ValidBodies ==
    { Body(TRUE, ProductKeys, "hat", <<"num", 1250>>, "true", "CLOTHS", NoId),
      Body(TRUE, ProductKeys, "hat", <<"str", 999>>, "false", "FOOD", NoId),
      Body(TRUE, ProductKeys \cup {"id"}, "pie", <<"num", 1250>>, "true", "FOOD", 1) }

InvalidBodies ==
    { Body(TRUE, ProductKeys \ {"name"}, "", <<"num", 1250>>, "true", "CLOTHS", NoId),
      Body(TRUE, ProductKeys, "hat", <<"num", 1250>>, "true", "HATS", NoId),
      Body(TRUE, ProductKeys, "pie", <<"str", 999>>, "yes", "FOOD", NoId) }

\* Bodies that are not JSON at all ("bad data").
MalformedBodies == { NoBody }

Bodies == ValidBodies \cup InvalidBodies \cup MalformedBodies

PathIds == 1..MaxId
PathNames == {"hat", "pie", "cap"}
PathCategories == {"CLOTHS", "FOOD", "TOOLS"}

\* ------------------------------------------------------------------- state
VARIABLES
    table,      \* the products table: the committed rows, in creation order
    nextId,     \* the next value of the table's primary-key sequence
    last,       \* the last request served, its response, the table before it
    created,    \* history: the successful POSTs in order, each the id the
                \* response carried and the body posted, kept
                \* while no PUT and no DELETE has succeeded (<<>> afterwards)
    pristine,   \* history: no PUT and no DELETE has succeeded so far
    deleted,    \* history: ids whose DELETE succeeded
    proc        \* SpecSteps: per worker, the request it is handling, the step
                \* it is at, and its database session

vars == <<table, nextId, last, created, pristine, deleted, proc>>

\* ------------------------------------------------------------ Product model
\* Decimal(data["price"])
Decimal(p) == p[2]

\* Product.deserialize raises DataValidationError on these bodies.
DataValidationError(b) ==
    \/ ~(ProductKeys \subseteq b.keys)
    \/ b.available \notin {"true", "false"}
    \/ b.category \notin CategoryNames

\* Product.deserialize(data) onto product p: every attribute but the id.
deserialize(p, b) ==
    [id |-> p.id, name |-> b.name, description |-> b.description,
     price |-> Decimal(b.price), available |-> (b.available = "true"),
     category |-> Category[b.category]]

\* Product(): a transient product.
Product == [id |-> NoId, name |-> "", description |-> "", price |-> 0,
            available |-> FALSE, category |-> Category.UNKNOWN]

\* Product.serialize()
serialize(p) ==
    [id |-> p.id, name |-> p.name, description |-> p.description,
     price |-> <<"str", p.price>>,
     available |-> (IF p.available THEN "true" ELSE "false"),
     category |-> CategoryName(p.category)]

\* Product.create(): the sequence assigns the id, the row is inserted.
create(tbl, nid, p) ==
    [table |-> Append(tbl, [p EXCEPT !.id = nid]), nextId |-> nid + 1]

\* Product.update(): the row with p's id takes p's values, in place.
update(tbl, p) ==
    [i \in 1..Len(tbl) |-> IF tbl[i].id = p.id THEN p ELSE tbl[i]]

\* Product.delete(): the row with p's id is removed.
delete(tbl, p) == SelectSeq(tbl, LAMBDA r : r.id # p.id)

\* ------------------------------------------------------------------ queries
\* Product.query.get(product_id): the rows with that primary key (none or one).
query_get(tbl, product_id) == SelectSeq(tbl, LAMBDA r : r.id = product_id)

\* Product.query.all()
query_all(tbl) == tbl

\* Product.query.filter_by(name=name).all()
query_filter_by_name(tbl, name) == SelectSeq(tbl, LAMBDA r : r.name = name)

\* Product.query.filter_by(category=category).all(): the path value is the
\* symbolic name, the column holds the member.
query_filter_by_category(tbl, category) ==
    SelectSeq(tbl, LAMBDA r : CategoryName(r.category) = category)

\* Product.query.filter_by(available=availability).all()
query_filter_by_available(tbl, availability) ==
    SelectSeq(tbl, LAMBDA r : r.available = availability)

\* [product.serialize() for product in products]
SerializeAll(products) == [i \in 1..Len(products) |-> serialize(products[i])]

\* ---------------------------------------------------------------- responses
Response(status, kind, items, location) ==
    [status |-> status, kind |-> kind, items |-> items, location |-> location]

NoLocation == "<absent>"

\* abort(status)
Abort(status) == Response(status, "error", <<>>, NoLocation)

\* What a handler returns: the table and sequence it leaves, and the response.
Outcome(tbl, nid, resp) == [table |-> tbl, nextId |-> nid, resp |-> resp]

\* ----------------------------------------------------------------- handlers
\* check_content_type with the comparison dropped: any header passes.
check_content_type_absent_only(headerValue, content_type) ==
    IF headerValue = NoHeader THEN HTTP_415_UNSUPPORTED_MEDIA_TYPE ELSE 0

\* check_content_type: 415 when it aborts, 0 when it returns.
check_content_type(headerValue, content_type) ==
    IF headerValue = NoHeader THEN HTTP_415_UNSUPPORTED_MEDIA_TYPE
    ELSE IF headerValue = content_type THEN 0
    ELSE HTTP_415_UNSUPPORTED_MEDIA_TYPE

\* create_products persisting before it validates: a rejected body leaves a row.
create_products_saves_first(tbl, nid, ctype, b) ==
    IF check_content_type(ctype, JSON) # 0
    THEN Outcome(tbl, nid, Abort(HTTP_415_UNSUPPORTED_MEDIA_TYPE))
    ELSE IF ~b.parse
    THEN Outcome(tbl, nid, Abort(HTTP_400_BAD_REQUEST))
    ELSE LET db == create(tbl, nid, Product) IN
         IF DataValidationError(b)
         THEN Outcome(db.table, db.nextId, Abort(HTTP_400_BAD_REQUEST))
         ELSE LET saved == deserialize(db.table[Len(db.table)], b)
              IN Outcome(update(db.table, saved), db.nextId,
                         Response(HTTP_201_CREATED, "product", <<serialize(saved)>>, "/"))

\* create_products serializing the product before create() gave it an id.
create_products_serializes_transient(tbl, nid, ctype, b) ==
    IF check_content_type(ctype, JSON) # 0
    THEN Outcome(tbl, nid, Abort(HTTP_415_UNSUPPORTED_MEDIA_TYPE))
    ELSE IF ~b.parse
    THEN Outcome(tbl, nid, Abort(HTTP_400_BAD_REQUEST))
    ELSE IF DataValidationError(b)
    THEN Outcome(tbl, nid, Abort(HTTP_400_BAD_REQUEST))
    ELSE LET product == deserialize(Product, b)
             db == create(tbl, nid, product)
         IN Outcome(db.table, db.nextId,
                    Response(HTTP_201_CREATED, "product", <<serialize(product)>>, "/"))

\* POST /products
create_products(tbl, nid, ctype, b) ==
    IF check_content_type(ctype, JSON) # 0
    THEN Outcome(tbl, nid, Abort(HTTP_415_UNSUPPORTED_MEDIA_TYPE))
    ELSE IF ~b.parse
    THEN Outcome(tbl, nid, Abort(HTTP_400_BAD_REQUEST))
    ELSE IF DataValidationError(b)
    THEN Outcome(tbl, nid, Abort(HTTP_400_BAD_REQUEST))
    ELSE LET product == deserialize(Product, b)
             db == create(tbl, nid, product)
             saved == db.table[Len(db.table)]
         IN Outcome(db.table, db.nextId,
                    Response(HTTP_201_CREATED, "product", <<serialize(saved)>>, "/"))

\* GET /health
healthcheck(tbl, nid) ==
    Outcome(tbl, nid, Response(HTTP_200_OK, "message", <<>>, NoLocation))

\* GET /
index(tbl, nid) ==
    Outcome(tbl, nid, Response(HTTP_200_OK, "html", <<>>, NoLocation))

\* GET /products, the first handler bound to the route: the placeholder.
get_products_placeholder(tbl, nid) ==
    LET products == <<>>
    IN Outcome(tbl, nid, Response(HTTP_200_OK, "list", products, NoLocation))

\* GET /products/<int:product_id>
get_product(tbl, nid, product_id) ==
    LET product == query_get(tbl, product_id) IN
    IF product = <<>>
    THEN Outcome(tbl, nid, Abort(HTTP_404_NOT_FOUND))
    ELSE Outcome(tbl, nid,
                 Response(HTTP_200_OK, "product", <<serialize(product[1])>>, NoLocation))

\* update_product without product.update(): the answer is built, nothing is stored.
update_product_not_saved(tbl, nid, product_id, ctype, b) ==
    IF check_content_type(ctype, JSON) # 0
    THEN Outcome(tbl, nid, Abort(HTTP_415_UNSUPPORTED_MEDIA_TYPE))
    ELSE IF ~b.parse
    THEN Outcome(tbl, nid, Abort(HTTP_400_BAD_REQUEST))
    ELSE LET product == query_get(tbl, product_id) IN
         IF product = <<>>
         THEN Outcome(tbl, nid, Abort(HTTP_404_NOT_FOUND))
         ELSE IF DataValidationError(b)
         THEN Outcome(tbl, nid, Abort(HTTP_400_BAD_REQUEST))
         ELSE LET changed == deserialize(product[1], b)
              IN Outcome(tbl, nid,
                         Response(HTTP_200_OK, "product", <<serialize(changed)>>,
                                  NoLocation))

\* update_product creating the product when the id is not stored (an upsert).
update_product_upsert(tbl, nid, product_id, ctype, b) ==
    IF check_content_type(ctype, JSON) # 0
    THEN Outcome(tbl, nid, Abort(HTTP_415_UNSUPPORTED_MEDIA_TYPE))
    ELSE IF ~b.parse
    THEN Outcome(tbl, nid, Abort(HTTP_400_BAD_REQUEST))
    ELSE IF DataValidationError(b)
    THEN Outcome(tbl, nid, Abort(HTTP_400_BAD_REQUEST))
    ELSE LET product == query_get(tbl, product_id) IN
         IF product = <<>>
         THEN LET made == [deserialize(Product, b) EXCEPT !.id = product_id]
              IN Outcome(Append(tbl, made), nid,
                         Response(HTTP_200_OK, "product", <<serialize(made)>>,
                                  NoLocation))
         ELSE LET changed == deserialize(product[1], b)
              IN Outcome(update(tbl, changed), nid,
                         Response(HTTP_200_OK, "product", <<serialize(changed)>>,
                                  NoLocation))

\* update_product copying the body's id onto the record when the body has one.
update_product_takes_body_id(tbl, nid, product_id, ctype, b) ==
    IF check_content_type(ctype, JSON) # 0
    THEN Outcome(tbl, nid, Abort(HTTP_415_UNSUPPORTED_MEDIA_TYPE))
    ELSE IF ~b.parse
    THEN Outcome(tbl, nid, Abort(HTTP_400_BAD_REQUEST))
    ELSE LET product == query_get(tbl, product_id) IN
         IF product = <<>>
         THEN Outcome(tbl, nid, Abort(HTTP_404_NOT_FOUND))
         ELSE IF DataValidationError(b)
         THEN Outcome(tbl, nid, Abort(HTTP_400_BAD_REQUEST))
         ELSE LET changed == deserialize(product[1], b)
                  moved == IF "id" \in b.keys THEN [changed EXCEPT !.id = b.id]
                           ELSE changed
              IN Outcome([i \in 1..Len(tbl) |->
                             IF tbl[i].id = product_id THEN moved ELSE tbl[i]],
                         nid,
                         Response(HTTP_200_OK, "product", <<serialize(moved)>>,
                                  NoLocation))

\* PUT /products/<int:product_id>
update_product(tbl, nid, product_id, ctype, b) ==
    IF check_content_type(ctype, JSON) # 0
    THEN Outcome(tbl, nid, Abort(HTTP_415_UNSUPPORTED_MEDIA_TYPE))
    ELSE IF ~b.parse
    THEN Outcome(tbl, nid, Abort(HTTP_400_BAD_REQUEST))
    ELSE LET product == query_get(tbl, product_id) IN
         IF product = <<>>
         THEN Outcome(tbl, nid, Abort(HTTP_404_NOT_FOUND))
         ELSE IF DataValidationError(b)
         THEN Outcome(tbl, nid, Abort(HTTP_400_BAD_REQUEST))
         ELSE LET changed == deserialize(product[1], b)
              IN Outcome(update(tbl, changed), nid,
                         Response(HTTP_200_OK, "product", <<serialize(changed)>>,
                                  NoLocation))

\* delete_product without product.delete(): the row stays.
delete_product_keeps_row(tbl, nid, product_id) ==
    LET product == query_get(tbl, product_id) IN
    IF product = <<>>
    THEN Outcome(tbl, nid, Abort(HTTP_404_NOT_FOUND))
    ELSE Outcome(tbl, nid, Response(HTTP_200_OK, "message", <<>>, NoLocation))

\* DELETE /products/<int:product_id>
delete_product(tbl, nid, product_id) ==
    LET product == query_get(tbl, product_id) IN
    IF product = <<>>
    THEN Outcome(tbl, nid, Abort(HTTP_404_NOT_FOUND))
    ELSE Outcome(delete(tbl, product[1]), nid,
                 Response(HTTP_200_OK, "message", <<>>, NoLocation))

\* GET /products, the second handler bound to the route.
get_products(tbl, nid) ==
    LET products == query_all(tbl)
    IN Outcome(tbl, nid,
               Response(HTTP_200_OK, "list", SerializeAll(products), NoLocation))

\* get_products_by_name without the filter: every product is returned.
get_products_by_name_unfiltered(tbl, nid, name) ==
    LET products == query_all(tbl)
    IN Outcome(tbl, nid,
               Response(HTTP_200_OK, "list", SerializeAll(products), NoLocation))

\* GET /products/name/<string:name>
get_products_by_name(tbl, nid, name) ==
    LET products == query_filter_by_name(tbl, name)
    IN Outcome(tbl, nid,
               Response(HTTP_200_OK, "list", SerializeAll(products), NoLocation))

\* GET /products/category/<string:category>
get_products_by_category(tbl, nid, category) ==
    LET products == query_filter_by_category(tbl, category)
    IN Outcome(tbl, nid,
               Response(HTTP_200_OK, "list", SerializeAll(products), NoLocation))

\* GET /products/availability/<bool:availability>
get_products_by_availability(tbl, nid, availability) ==
    LET products == query_filter_by_available(tbl, availability)
    IN Outcome(tbl, nid,
               Response(HTTP_200_OK, "list", SerializeAll(products), NoLocation))

\* ------------------------------------------------------------------ machine
Request(op, id, ctype, b, arg, flag) ==
    [op |-> op, id |-> id, ctype |-> ctype, body |-> b, arg |-> arg, flag |-> flag]

\* The workers that handle requests concurrently in SpecSteps.
Workers == {1, 2}

NoRequest == Request("INIT", NoId, NoHeader, NoBody, "", FALSE)
NoResponse == Response(0, "none", <<>>, NoLocation)

\* A worker between requests: no request, an empty session.
Idle == [pc |-> "idle", req |-> NoRequest, obj |-> <<>>, touched |-> FALSE,
         pre |-> <<>>, rowAtWrite |-> FALSE, resp |-> NoResponse]

Init ==
    /\ table = <<>>
    /\ nextId = 1
    /\ last = [req |-> Request("INIT", NoId, NoHeader, NoBody, "", FALSE),
               resp |-> Response(0, "none", <<>>, NoLocation),
               pre |-> <<>>, preDeleted |-> {}]
    /\ created = <<>>
    /\ pristine = TRUE
    /\ deleted = {}
    /\ proc = [w \in Workers |-> Idle]

\* The server answers req with out.
Serve(req, out) ==
    /\ table' = out.table
    /\ nextId' = out.nextId
    /\ last' = [req |-> req, resp |-> out.resp, pre |-> table, preDeleted |-> deleted]
    /\ UNCHANGED proc

POST_products ==
    \E ctype \in ContentTypes, b \in Bodies :
        \E out \in {create_products(table, nextId, ctype, b)} :
        /\ out.resp.status = HTTP_201_CREATED => nextId <= MaxId
        /\ Serve(Request("POST", NoId, ctype, b, "", FALSE), out)
        /\ created' = IF out.resp.status = HTTP_201_CREATED /\ pristine
                      THEN Append(created, [id |-> out.resp.items[1].id, body |-> b])
                      ELSE created
        /\ UNCHANGED <<pristine, deleted>>

\* A request that reads: the histories stay.
Read(req, out) ==
    /\ Serve(req, out)
    /\ UNCHANGED <<created, pristine, deleted>>

GET_health ==
    Read(Request("GET /health", NoId, NoHeader, NoBody, "", FALSE),
         healthcheck(table, nextId))

GET_index ==
    Read(Request("GET /", NoId, NoHeader, NoBody, "", FALSE), index(table, nextId))

\* GET /products is bound twice, to the placeholder and to the query: either
\* handler may be the one that answers.
GET_products_placeholder ==
    Read(Request("GET /products", NoId, NoHeader, NoBody, "", FALSE),
         get_products_placeholder(table, nextId))

GET_products ==
    Read(Request("GET /products", NoId, NoHeader, NoBody, "", FALSE),
         get_products(table, nextId))

GET_product ==
    \E id \in PathIds :
        Read(Request("GET", id, NoHeader, NoBody, "", FALSE),
             get_product(table, nextId, id))

PUT_product ==
    \E id \in PathIds, ctype \in ContentTypes, b \in Bodies :
        \E out \in {update_product(table, nextId, id, ctype, b)} :
        /\ Serve(Request("PUT", id, ctype, b, "", FALSE), out)
        /\ pristine' = (pristine /\ out.resp.status # HTTP_200_OK)
        /\ created' = IF pristine' THEN created ELSE <<>>
        /\ UNCHANGED deleted

DELETE_product ==
    \E id \in PathIds :
        \E out \in {delete_product(table, nextId, id)} :
        /\ Serve(Request("DELETE", id, NoHeader, NoBody, "", FALSE), out)
        /\ deleted' = IF out.resp.status \in {HTTP_200_OK, HTTP_204_NO_CONTENT}
                      THEN deleted \cup {id} ELSE deleted
        /\ pristine' = (pristine /\ deleted' = deleted)
        /\ created' = IF pristine' THEN created ELSE <<>>

GET_products_by_name ==
    \E name \in PathNames :
        Read(Request("GET /products/name", NoId, NoHeader, NoBody, name, FALSE),
             get_products_by_name(table, nextId, name))

GET_products_by_category ==
    \E category \in PathCategories :
        Read(Request("GET /products/category", NoId, NoHeader, NoBody, category, FALSE),
             get_products_by_category(table, nextId, category))

GET_products_by_availability ==
    \E availability \in BOOLEAN :
        Read(Request("GET /products/availability", NoId, NoHeader, NoBody, "",
                     availability),
             get_products_by_availability(table, nextId, availability))

Next ==
    \/ GET_health
    \/ GET_index
    \/ POST_products
    \/ GET_products_placeholder
    \/ GET_product
    \/ PUT_product
    \/ DELETE_product
    \/ GET_products
    \/ GET_products_by_name
    \/ GET_products_by_category
    \/ GET_products_by_availability

Spec == Init /\ [][Next]_vars

\* The ids stored in a table.
Ids(tbl) == {tbl[i].id : i \in 1..Len(tbl)}

\* The body is a valid product: it parses and deserialize accepts it.
ValidPayload(b) == b.parse /\ ~DataValidationError(b)

\* The request passes the content-type check, get_json and deserialize.
ValidJson(ctype, b) == ctype = JSON /\ ValidPayload(b)

\* --------------------------------------------------------- step-wise machine
\* SpecSteps: the handlers of the routes that write, one database round-trip
\* per step, run by concurrent workers.  Each worker has its own session,
\* scoped to the request: obj is the Product the handler holds (fetched or new),
\* and the session is dropped, uncommitted changes with it, when the request ends.

\* The routes each worker is given: the first every route below, the second
\* DELETE, the request that races the first worker's.
Routes == [w \in Workers |->
              IF w = 1 THEN {"POST", "PUT", "DELETE", "GET", "GET /products",
                             "GET /products/name"}
              ELSE {"DELETE"}]

StepIds == 1..MaxStepId

\* The bodies sent in SpecSteps: two valid products, the two bodies whose
\* deserialize raises part-way, and the body that is not JSON.
StepBodies ==
    {b \in ValidBodies : b.name = "hat"}
        \cup {b \in InvalidBodies : "name" \in b.keys}
        \cup MalformedBodies

\* Product.deserialize(data) that raised: the attributes assigned before the
\* raise, in the order name, description, price, available, category.
deserialize_partial(p, b) ==
    IF "name" \notin b.keys THEN p
    ELSE IF "description" \notin b.keys THEN [p EXCEPT !.name = b.name]
    ELSE IF "price" \notin b.keys
    THEN [p EXCEPT !.name = b.name, !.description = b.description]
    ELSE IF "available" \notin b.keys \/ b.available \notin {"true", "false"}
    THEN [p EXCEPT !.name = b.name, !.description = b.description,
                   !.price = Decimal(b.price)]
    ELSE [p EXCEPT !.name = b.name, !.description = b.description,
                   !.price = Decimal(b.price), !.available = (b.available = "true")]

\* Worker w moves on: its record becomes rec.
Goto(w, rec) == proc' = [proc EXCEPT ![w] = rec]

\* Worker w answers resp; what else changes in its record is in rec.
Respond(w, rec, resp) == Goto(w, [rec EXCEPT !.pc = "done", !.resp = resp])

Accepts(w, op) == proc[w].pc = "idle" /\ op \in Routes[w]

At(w, op, pc) == proc[w].pc = pc /\ proc[w].req.op = op

\* create_products, lines 78-81: the content-type check and get_json.
create_products_begin(w, ctype, b) ==
    /\ Accepts(w, "POST")
    /\ ValidJson(ctype, b) => nextId <= MaxStepId
    /\ LET rec == [Idle EXCEPT !.req = Request("POST", NoId, ctype, b, "", FALSE)] IN
       IF check_content_type(ctype, JSON) # 0
       THEN Respond(w, rec, Abort(HTTP_415_UNSUPPORTED_MEDIA_TYPE))
       ELSE IF ~b.parse
       THEN Respond(w, rec, Abort(HTTP_400_BAD_REQUEST))
       ELSE Goto(w, [rec EXCEPT !.pc = "deserialize"])
    /\ UNCHANGED <<table, nextId, last, created, pristine, deleted>>

\* create_products, lines 82-83: Product() and deserialize.
create_products_deserialize(w) ==
    /\ At(w, "POST", "deserialize")
    /\ LET b == proc[w].req.body IN
       IF DataValidationError(b)
       THEN Respond(w, [proc[w] EXCEPT !.obj = <<deserialize_partial(Product, b)>>],
                    Abort(HTTP_400_BAD_REQUEST))
       ELSE Goto(w, [proc[w] EXCEPT !.obj = <<deserialize(Product, b)>>,
                                    !.pc = "write"])
    /\ UNCHANGED <<table, nextId, last, created, pristine, deleted>>

\* create_products, lines 84-94: create() and the response.
create_products_write(w) ==
    /\ At(w, "POST", "write")
    /\ LET db == create(table, nextId, proc[w].obj[1])
           saved == db.table[Len(db.table)]
       IN /\ table' = db.table
          /\ nextId' = db.nextId
          /\ Respond(w, [proc[w] EXCEPT !.obj = <<saved>>, !.touched = TRUE],
                     Response(HTTP_201_CREATED, "product", <<serialize(saved)>>, "/"))
    /\ UNCHANGED <<last, created, pristine, deleted>>

\* update_product, lines 131-132: the content-type check and get_json.
update_product_begin(w, product_id, ctype, b) ==
    /\ Accepts(w, "PUT")
    /\ LET rec == [Idle EXCEPT !.req = Request("PUT", product_id, ctype, b, "", FALSE)] IN
       IF check_content_type(ctype, JSON) # 0
       THEN Respond(w, rec, Abort(HTTP_415_UNSUPPORTED_MEDIA_TYPE))
       ELSE IF ~b.parse
       THEN Respond(w, rec, Abort(HTTP_400_BAD_REQUEST))
       ELSE Goto(w, [rec EXCEPT !.pc = "lookup"])
    /\ UNCHANGED <<table, nextId, last, created, pristine, deleted>>

\* update_product, lines 134-136: Product.query.get and the 404.
update_product_lookup(w) ==
    /\ At(w, "PUT", "lookup")
    /\ LET product == query_get(table, proc[w].req.id)
           rec == [proc[w] EXCEPT !.touched = TRUE, !.pre = table]
       IN IF product = <<>>
          THEN Respond(w, rec, Abort(HTTP_404_NOT_FOUND))
          ELSE Goto(w, [rec EXCEPT !.obj = product, !.pc = "deserialize"])
    /\ UNCHANGED <<table, nextId, last, created, pristine, deleted>>

\* update_product going on to update() although deserialize raised.
update_product_deserialize_then_saves(w) ==
    /\ At(w, "PUT", "deserialize")
    /\ LET b == proc[w].req.body
           product == proc[w].obj[1]
       IN IF DataValidationError(b)
          THEN Goto(w, [proc[w] EXCEPT !.obj = <<deserialize_partial(product, b)>>,
                                       !.pc = "write"])
          ELSE Goto(w, [proc[w] EXCEPT !.obj = <<deserialize(product, b)>>,
                                       !.pc = "write"])
    /\ UNCHANGED <<table, nextId, last, created, pristine, deleted>>

\* update_product, line 138: deserialize onto the fetched product.
update_product_deserialize(w) ==
    /\ At(w, "PUT", "deserialize")
    /\ LET b == proc[w].req.body
           product == proc[w].obj[1]
       IN IF DataValidationError(b)
          THEN Respond(w, [proc[w] EXCEPT !.obj = <<deserialize_partial(product, b)>>],
                       Abort(HTTP_400_BAD_REQUEST))
          ELSE Goto(w, [proc[w] EXCEPT !.obj = <<deserialize(product, b)>>,
                                       !.pc = "write"])
    /\ UNCHANGED <<table, nextId, last, created, pristine, deleted>>

\* update_product saving with an insert when the row is gone (a merge).
update_product_write_reinserts(w) ==
    /\ At(w, "PUT", "write")
    /\ LET product == proc[w].obj[1]
           there == query_get(table, product.id) # <<>>
           rec == [proc[w] EXCEPT !.rowAtWrite = there]
       IN /\ table' = IF there THEN update(table, product) ELSE Append(table, product)
          /\ Respond(w, rec,
                     Response(HTTP_200_OK, "product", <<serialize(product)>>,
                              NoLocation))
    /\ UNCHANGED <<nextId, last, created, pristine, deleted>>

\* update_product, lines 139-141: update() and the response.  update() fails
\* when the row is no longer there: nothing is written, the answer is 500.
update_product_write(w) ==
    /\ At(w, "PUT", "write")
    /\ LET product == proc[w].obj[1]
           there == query_get(table, product.id) # <<>>
           rec == [proc[w] EXCEPT !.rowAtWrite = there]
       IN IF there
          THEN /\ table' = update(table, product)
               /\ Respond(w, rec,
                          Response(HTTP_200_OK, "product", <<serialize(product)>>,
                                   NoLocation))
          ELSE /\ table' = table
               /\ Respond(w, rec, Abort(HTTP_500_INTERNAL_SERVER_ERROR))
    /\ UNCHANGED <<nextId, last, created, pristine, deleted>>

\* delete_product, lines 152-154: Product.query.get and the 404.
delete_product_lookup(w, product_id) ==
    /\ Accepts(w, "DELETE")
    /\ LET product == query_get(table, product_id)
           rec == [Idle EXCEPT
                      !.req = Request("DELETE", product_id, NoHeader, NoBody, "", FALSE),
                      !.touched = TRUE, !.pre = table]
       IN IF product = <<>>
          THEN Respond(w, rec, Abort(HTTP_404_NOT_FOUND))
          ELSE Goto(w, [rec EXCEPT !.obj = product, !.pc = "write"])
    /\ UNCHANGED <<table, nextId, last, created, pristine, deleted>>

\* delete_product, lines 156-158: delete() and the response.
delete_product_write(w) ==
    /\ At(w, "DELETE", "write")
    /\ table' = delete(table, proc[w].obj[1])
    /\ deleted' = deleted \cup {proc[w].req.id}
    /\ Respond(w, [proc[w] EXCEPT !.rowAtWrite = (proc[w].req.id \in Ids(table))],
               Response(HTTP_200_OK, "message", <<>>, NoLocation))
    /\ UNCHANGED <<nextId, last, created, pristine>>

\* A handler that only reads, run in one step: its request and its outcome.
ReadStep(w, req, out) ==
    /\ Accepts(w, req.op)
    /\ Respond(w, [Idle EXCEPT !.req = req, !.touched = TRUE], out.resp)
    /\ UNCHANGED <<table, nextId, last, created, pristine, deleted>>

\* The end of a request: the worker's session is removed with whatever it
\* held uncommitted.
Teardown(w) ==
    /\ proc[w].pc = "done"
    /\ Goto(w, Idle)
    /\ UNCHANGED <<table, nextId, last, created, pristine, deleted>>

NextSteps ==
    \/ \E w \in Workers, ctype \in ContentTypes, b \in StepBodies :
           create_products_begin(w, ctype, b)
    \/ \E w \in Workers : create_products_deserialize(w)
    \/ \E w \in Workers : create_products_write(w)
    \/ \E w \in Workers, id \in StepIds, ctype \in ContentTypes, b \in StepBodies :
           update_product_begin(w, id, ctype, b)
    \/ \E w \in Workers : update_product_lookup(w)
    \/ \E w \in Workers : update_product_deserialize(w)
    \/ \E w \in Workers : update_product_write(w)
    \/ \E w \in Workers, id \in StepIds : delete_product_lookup(w, id)
    \/ \E w \in Workers : delete_product_write(w)
    \/ \E w \in Workers, id \in StepIds :
           ReadStep(w, Request("GET", id, NoHeader, NoBody, "", FALSE),
                    get_product(table, nextId, id))
    \/ \E w \in Workers :
           ReadStep(w, Request("GET /products", NoId, NoHeader, NoBody, "", FALSE),
                    get_products(table, nextId))
    \/ \E w \in Workers, name \in PathNames :
           ReadStep(w, Request("GET /products/name", NoId, NoHeader, NoBody, name, FALSE),
                    get_products_by_name(table, nextId, name))
    \/ \E w \in Workers : Teardown(w)

SpecSteps == Init /\ [][NextSteps]_vars

\* ------------------------------------------------------------------- claims

\* The serialized product `item` carries the values of body b.
Matches(item, b) ==
    /\ item.name = b.name
    /\ item.description = b.description
    /\ Decimal(item.price) = Decimal(b.price)
    /\ item.available = b.available
    /\ item.category = b.category


LastIs(op) == last.req.op = op

\* C1: starting from an empty store, after N successful POSTs and no deletes
\* (and no updates), GET /products responds 200 with exactly N entries, and
\* GET /products/{id} of each created id responds 200 with the record created
\* under that id.
C1_CreatedAreListedAndRead ==
    pristine =>
        /\ LastIs("GET /products") =>
               /\ last.resp.status = HTTP_200_OK
               /\ Len(last.resp.items) = Len(created)
        /\ \A k \in 1..Len(created) :
               (LastIs("GET") /\ last.req.id = created[k].id) =>
                   /\ last.resp.status = HTTP_200_OK
                   /\ last.resp.items[1].id = created[k].id
                   /\ Matches(last.resp.items[1], created[k].body)

\* C2: DELETE /products/{id} on a stored id responds 204 with an empty body and
\* removes exactly that record, every other stored record unchanged.
C2_DeleteResponds204AndRemoves ==
    (LastIs("DELETE") /\ last.req.id \in Ids(last.pre)) =>
        /\ last.resp.status = HTTP_204_NO_CONTENT
        /\ last.resp.kind = "empty"
        /\ table = SelectSeq(last.pre, LAMBDA r : r.id # last.req.id)

\* C3, as stated: once a DELETE of a stored id has succeeded, every later GET,
\* PUT or DELETE on that id responds 404.
C3_Original ==
    (last.req.op \in {"GET", "PUT", "DELETE"} /\ last.req.id \in last.preDeleted) =>
        last.resp.status = HTTP_404_NOT_FOUND

\* C3, amended: once a DELETE of a stored id has succeeded, every later GET or
\* DELETE on that id, and every later PUT on it that declares Content-Type
\* application/json and whose body parses as JSON, responds 404, whatever
\* other requests happen in between.
C3_DeletedIdStays404 ==
    (/\ last.req.op \in {"GET", "PUT", "DELETE"}
     /\ last.req.id \in last.preDeleted
     /\ LastIs("PUT") => (last.req.ctype = JSON /\ last.req.body.parse)) =>
        last.resp.status = HTTP_404_NOT_FOUND

\* A second DELETE of a deleted id, after a further create, answered 404.
C3_Witness ==
    /\ LastIs("DELETE")
    /\ last.req.id \in last.preDeleted
    /\ \E i \in 1..Len(table) : table[i].id > last.req.id
    /\ last.resp.status = HTTP_404_NOT_FOUND

\* C4: a POST or PUT whose Content-Type is absent or is not exactly
\* application/json responds 415, for every body and every id, and leaves the
\* store unchanged.
C4_WrongContentTypeIs415 ==
    (last.req.op \in {"POST", "PUT"} /\ last.req.ctype # JSON) =>
        /\ last.resp.status = HTTP_415_UNSUPPORTED_MEDIA_TYPE
        /\ table = last.pre

\* A PUT of a valid body on a stored id under a wrong Content-Type got 415.
C4_Witness ==
    /\ LastIs("PUT")
    /\ last.req.ctype \notin {JSON, NoHeader}
    /\ ValidPayload(last.req.body)
    /\ last.req.id \in Ids(last.pre)
    /\ last.resp.status = HTTP_415_UNSUPPORTED_MEDIA_TYPE

\* C5: a POST with Content-Type application/json whose body lacks the name key
\* responds 400 and writes nothing: the stored records are those from before.
C5_MissingNameIs400 ==
    (/\ LastIs("POST")
     /\ last.req.ctype = JSON
     /\ last.req.body.parse
     /\ "name" \notin last.req.body.keys) =>
        /\ last.resp.status = HTTP_400_BAD_REQUEST
        /\ table = last.pre

\* A nameless JSON POST against a non-empty store got 400.
C5_Witness ==
    /\ LastIs("POST")
    /\ last.req.ctype = JSON
    /\ last.req.body.parse
    /\ "name" \notin last.req.body.keys
    /\ last.pre # <<>>
    /\ last.resp.status = HTTP_400_BAD_REQUEST

\* C6: a POST with a valid JSON payload responds 201 with a Location header and
\* a body carrying a server-assigned numeric id plus name, description, price
\* (as a decimal value), available and category (its symbolic name) equal to
\* the payload; a GET by that id right after returns the same fields.
C6_CreateEchoesPayload ==
    (LastIs("POST") /\ last.req.ctype = JSON /\ ValidPayload(last.req.body)) =>
        /\ last.resp.status = HTTP_201_CREATED
        /\ last.resp.location # NoLocation
        /\ Len(last.resp.items) = 1
        /\ last.resp.items[1].id \in Nat
        /\ last.resp.items[1].id # NoId
        /\ Matches(last.resp.items[1], last.req.body)
        /\ last.resp.items[1].category \in CategoryNames
        /\ LET read == get_product(table, nextId, last.resp.items[1].id).resp
           IN /\ read.status = HTTP_200_OK
              /\ read.items = last.resp.items

\* A valid POST that carried an id of its own was answered 201.
C6_Witness ==
    /\ LastIs("POST")
    /\ last.req.ctype = JSON
    /\ ValidPayload(last.req.body)
    /\ "id" \in last.req.body.keys
    /\ last.pre # <<>>
    /\ last.resp.status = HTTP_201_CREATED

\* The rows of the table the last filter request asks for.
Wanted(r) ==
    CASE LastIs("GET /products/name") -> r.name = last.req.arg
      [] LastIs("GET /products/category") -> serialize(r).category = last.req.arg
      [] LastIs("GET /products/availability") -> r.available = last.req.flag
      [] OTHER -> FALSE

LastIsFilter ==
    last.req.op \in {"GET /products/name", "GET /products/category",
                     "GET /products/availability"}

\* C7: the name, category and availability filters respond 200 with exactly
\* the stored records whose value equals the path value: every match once, no
\* other record, and an empty array when none match.
C7_FiltersReturnExactlyMatches ==
    LastIsFilter =>
        /\ last.resp.status = HTTP_200_OK
        /\ last.resp.kind = "list"
        /\ \A i \in 1..Len(table) :
               Wanted(table[i]) =>
                   \E j \in 1..Len(last.resp.items) :
                       last.resp.items[j] = serialize(table[i])
        /\ \A j \in 1..Len(last.resp.items) :
               \E i \in 1..Len(table) :
                   Wanted(table[i]) /\ last.resp.items[j] = serialize(table[i])
        /\ Len(last.resp.items) = Cardinality({i \in 1..Len(table) : Wanted(table[i])})

\* A filter answered with some of the stored records and not all of them.
C7_Witness ==
    /\ LastIsFilter
    /\ last.resp.items # <<>>
    /\ Len(last.resp.items) < Len(table)

\* The table tbl with the row of product_id holding body b's values.
WithRow(tbl, product_id, b) ==
    [i \in 1..Len(tbl) |->
        IF tbl[i].id = product_id
        THEN [id |-> product_id, name |-> b.name, description |-> b.description,
              price |-> Decimal(b.price), available |-> (b.available = "true"),
              category |-> Category[b.category]]
        ELSE tbl[i]]

C9_Original ==
    /\ (LastIs("PUT") /\ last.req.ctype = JSON /\ last.req.id \notin Ids(last.pre)) =>
           /\ last.resp.status = HTTP_404_NOT_FOUND
           /\ table = last.pre
    /\ (LastIs("GET") /\ last.req.id \notin Ids(last.pre)) =>
           last.resp.status = HTTP_404_NOT_FOUND

\* C9, amended: a PUT with Content-Type application/json and a body that
\* parses as JSON, on an id that is not stored, responds 404 and neither
\* creates nor changes a record; a GET of an id that is not stored responds
\* 404.
C9_UnknownIdIs404 ==
    /\ (/\ LastIs("PUT")
        /\ last.req.ctype = JSON
        /\ last.req.body.parse
        /\ last.req.id \notin Ids(last.pre)) =>
           /\ last.resp.status = HTTP_404_NOT_FOUND
           /\ table = last.pre
    /\ (LastIs("GET") /\ last.req.id \notin Ids(last.pre)) =>
           last.resp.status = HTTP_404_NOT_FOUND

\* A valid PUT on an id missing from a non-empty store got 404.
C9_Witness ==
    /\ LastIs("PUT")
    /\ last.req.ctype = JSON
    /\ ValidPayload(last.req.body)
    /\ last.req.id \notin Ids(last.pre)
    /\ last.pre # <<>>
    /\ last.resp.status = HTTP_404_NOT_FOUND

\* C10: in every reachable state the stored ids are pairwise distinct, every
\* stored record has a non-null id the sequence assigned at create (not one a
\* body carried), and a PUT leaves the id of the record it updates, and of
\* every other record, as it was, whatever id its body carries.
C10_IdsUniqueAssignedImmutable ==
    /\ \A i, j \in 1..Len(table) : table[i].id = table[j].id => i = j
    /\ \A i \in 1..Len(table) : table[i].id # NoId /\ table[i].id \in 1..(nextId - 1)
    /\ (LastIs("POST") /\ last.resp.status = HTTP_201_CREATED) =>
           /\ Len(table) = Len(last.pre) + 1
           /\ table[Len(table)].id \notin Ids(last.pre) \cup last.preDeleted
           /\ table[Len(table)].id = nextId - 1
    /\ (LastIs("PUT") /\ last.resp.status = HTTP_200_OK) =>
           /\ Len(table) = Len(last.pre)
           /\ \A i \in 1..Len(table) : table[i].id = last.pre[i].id
           /\ last.resp.items[1].id = last.req.id

\* A PUT whose body carried another id than the path updated the record.
C10_Witness ==
    /\ LastIs("PUT")
    /\ last.resp.status = HTTP_200_OK
    /\ "id" \in last.req.body.keys
    /\ last.req.body.id # last.req.id
    /\ Len(table) > 1

\* C12: GET /products returns the stored products in the order in which they
\* were created: for products created as p1..pN (and none updated or deleted
\* since), the response is 200 and its entry i is pi.
C12_ListInCreationOrder ==
    (pristine /\ LastIs("GET /products")) =>
        /\ last.resp.status = HTTP_200_OK
        /\ DOMAIN last.resp.items = DOMAIN created
        /\ \A i \in DOMAIN created :
               /\ last.resp.items[i].id = created[i].id
               /\ Matches(last.resp.items[i], created[i].body)

\* ------------------------------------------------- claims of the step machine
Done(w, op) == proc[w].pc = "done" /\ proc[w].req.op = op

\* C11: for POST and PUT a request that ends in 415 or 400 has performed no
\* database read or write before the error, so a PUT with Content-Type
\* application/json and an invalid body ends in 400 whether or not the path id
\* is stored.
C11_ErrorsBeforePersistence ==
    \A w \in Workers :
        /\ (/\ Done(w, "POST") \/ Done(w, "PUT")
            /\ proc[w].resp.status \in {HTTP_400_BAD_REQUEST,
                                        HTTP_415_UNSUPPORTED_MEDIA_TYPE}) =>
               ~proc[w].touched
        /\ (/\ Done(w, "PUT")
            /\ proc[w].req.ctype = JSON
            /\ ~ValidPayload(proc[w].req.body)) =>
               proc[w].resp.status = HTTP_400_BAD_REQUEST

\* The product p holds the values of one valid body, all of them.
Whole(p) == \E b \in ValidBodies : p = deserialize(p, b)

\* The serialized product holds the values of one valid body, all of them.
WholeItem(item) ==
    \E b \in ValidBodies : item = serialize(deserialize([id |-> item.id], b))

\* The rows of tbl stored under product_id.
RowsOf(tbl, product_id) == SelectSeq(tbl, LAMBDA r : r.id = product_id)

\* A PUT on a stored id that deserialize rejected.
FailedPut(w) ==
    /\ Done(w, "PUT")
    /\ proc[w].resp.status = HTTP_400_BAD_REQUEST
    /\ proc[w].touched

PutRacedDelete ==
    /\ Done(1, "PUT")
    /\ Done(2, "DELETE")
    /\ proc[1].req.id = proc[2].req.id
    /\ ValidJson(proc[1].req.ctype, proc[1].req.body)
    /\ proc[1].obj # <<>>
    /\ proc[2].obj # <<>>

\* tbl without the row of product_id.
Without(tbl, product_id) == SelectSeq(tbl, LAMBDA r : r.id # product_id)

\* What C14 says of the store and of the 200: the DELETE succeeded and the id
\* is gone, the store is that of a serial order, a deleted id never comes
\* back, and a PUT that answers 200 wrote a row that was there.
C14_StoreIsSerial ==
    /\ PutRacedDelete =>
           /\ proc[2].resp.status = HTTP_200_OK
           /\ proc[1].req.id \notin Ids(table)
           /\ \/ table = Without(proc[1].pre, proc[1].req.id)
              \/ table = Without(proc[2].pre, proc[1].req.id)
    /\ \A id \in deleted : id \notin Ids(table)
    /\ \A w \in Workers :
           (Done(w, "PUT") /\ proc[w].resp.status = HTTP_200_OK) => proc[w].rowAtWrite

\* C14, as stated: when a PUT and a DELETE on the same stored id are handled
\* concurrently, in every interleaving the outcome equals one of the two
\* serial orders: the store is as above, and the PUT is answered as in a
\* serial order, 200 (before the DELETE) or 404 (after it).
C14_Original ==
    /\ C14_StoreIsSerial
    /\ PutRacedDelete =>
           proc[1].resp.status \in {HTTP_200_OK, HTTP_404_NOT_FOUND}

\* C14, amended: in every interleaving the store ends as after one of the two
\* serial orders: the DELETE succeeds, the id is absent afterwards, a deleted
\* id is never stored again, and a PUT answers 200 only when the row was there
\* as it wrote.  A PUT that looked the row up before the DELETE wrote and
\* writes after it fails with 500 and stores nothing.
C14_PutNeverResurrects ==
    /\ C14_StoreIsSerial
    /\ PutRacedDelete =>
           /\ proc[1].resp.status \in {HTTP_200_OK, HTTP_500_INTERNAL_SERVER_ERROR}
           /\ proc[1].resp.status = HTTP_500_INTERNAL_SERVER_ERROR <=> ~proc[1].rowAtWrite

\* The DELETE wrote between the PUT's lookup and its write, other rows stored.
C14_Witness ==
    /\ PutRacedDelete
    /\ ~proc[1].rowAtWrite
    /\ table # <<>>
====
